---- MODULE Spec2Model ----
(***************************************************************************)
(* Model of the local batched PR-BCD attack (LocalBatchedPRBCD), of the    *)
(* local-attack transfer driver (run) and of the global-attack helpers     *)
(* (prepare_global_attack_experiment, run_global_attack).                  *)
(*                                                                         *)
(* Edge weights are exact: a weight is a pair <<h, t>> standing for        *)
(* h * 0.5 + t * 1e-9, so that the values 0, 0.5, 1, 1.5, 2 and the        *)
(* placeholder weight 1e-9 are all representable without rounding.         *)
(* Epsilons are exact too: an epsilon is a count of quarters.              *)
(***************************************************************************)
EXTENDS Integers, Sequences, FiniteSets, TLC

VARIABLES
    \* ---- LocalBatchedPRBCD object ----
    adj,                          \* self.adj: the original adjacency
    ppr_matrix,                   \* self.ppr_matrix
    attack_labeled_nodes_only,    \* self.attack_labeled_nodes_only
    ppr_recalc_at_end,            \* self.ppr_recalc_at_end
    current_search_space,         \* self.current_search_space
    modified_edge_weight_diff,    \* self.modified_edge_weight_diff
    call,                         \* the last method call: arguments, locals, return value
    \* ---- experiment drivers ----
    program,                      \* which program of the repository is running
    pc,                           \* position in run / in the global-attack script
    epsilons,                     \* argument `epsilons` (each a count of quarters)
    make_undirected,              \* argument `make_undirected`
    tmp_nodes,                    \* run: tmp_nodes
    models_and_hyperparams,       \* run: labels of the victim models found
    surrogate_found,              \* run: whether find_models found a surrogate model
    ni, ei, mi,                   \* run: loop positions (node, epsilon, model)
    n_perturbations,              \* the budget computed last
    results,                      \* run: results
    effects,                      \* dataset loads, storage lookups, attacks so far
    attempted, raised, logged,    \* history of the units of work of run
    faults_left,                  \* exceptions the collaborators may still raise
    storage,                      \* artifact store: the keys that hold an artifact
    m,                            \* global: logical edge count, in halves
    attack_runs, saves,           \* global: per key, attacks executed and saves
    last,                         \* global: what the last run_global_attack did
    calls_left                    \* global: calls of run_global_attack still to come

attackVars == <<adj, ppr_matrix, attack_labeled_nodes_only, ppr_recalc_at_end,
                current_search_space, modified_edge_weight_diff, call>>

localVars == <<tmp_nodes, models_and_hyperparams, surrogate_found, ni, ei, mi,
               results, attempted, raised, logged, faults_left>>

globalVars == <<storage, m, attack_runs, saves, last, calls_left>>

sharedVars == <<program, pc, epsilons, make_undirected, n_perturbations, effects>>

vars == <<adj, ppr_matrix, attack_labeled_nodes_only, ppr_recalc_at_end,
          current_search_space, modified_edge_weight_diff, call,
          program, pc, epsilons, make_undirected, tmp_nodes, models_and_hyperparams,
          surrogate_found, ni, ei, mi, n_perturbations, results, effects,
          attempted, raised, logged, faults_left,
          storage, m, attack_runs, saves, last, calls_left>>

----------------------------------------------------------------------------
(* Bounds *)

NumNodes == 3       \* n: number of nodes of the graph
MaxSearch == 2      \* largest search space of an episode

Node == 0 .. (NumNodes - 1)

----------------------------------------------------------------------------
(* Edge weights *)

Zero == <<0, 0>>
Half == <<1, 0>>
One == <<2, 0>>
Two == <<4, 0>>
PlaceholderWeight == <<0, 1>>       \* the literal 1e-9

VAdd(a, b) == <<a[1] + b[1], a[2] + b[2]>>
VSub(a, b) == <<a[1] - b[1], a[2] - b[2]>>
\* a < b; |t| * 1e-9 stays far below 0.5, so the order is lexicographic
VLess(a, b) == a[1] < b[1] \/ (a[1] = b[1] /\ a[2] < b[2])
VMax(a, b) == IF VLess(a, b) THEN b ELSE a

Range(s) == {s[i] : i \in DOMAIN s}

RECURSIVE VSumSeq(_)
VSumSeq(s) == IF s = <<>> THEN Zero ELSE VAdd(Head(s), VSumSeq(Tail(s)))

----------------------------------------------------------------------------
(* Sparse tensors.  A SparseTensor without duplicate entries is a function  *)
(* from its stored (row, col) indices to their values (explicit zeros are   *)
(* stored entries); a raw COO triple list is a sequence of entries.         *)

IdxLess(a, b) == a[1] < b[1] \/ (a[1] = b[1] /\ a[2] < b[2])

RECURSIVE SortIdx(_)
SortIdx(S) ==
    IF S = {} THEN <<>>
    ELSE LET mn == CHOOSE x \in S : \A y \in S : x = y \/ IdxLess(x, y)
         IN <<mn>> \o SortIdx(S \ {mn})

\* SparseTensor.coo(): the entries in (row, col) order
coo(M) ==
    LET s == SortIdx(DOMAIN M)
    IN [i \in 1 .. Len(s) |-> [row |-> s[i][1], col |-> s[i][2], value |-> M[s[i]]]]

\* entries of a raw COO list at one index
SelectAt(entries, p) == SelectSeq(entries, LAMBDA e : e.row = p[1] /\ e.col = p[2])

SeqValues(entries) == [i \in DOMAIN entries |-> entries[i].value]

\* torch_sparse.coalesce(A_idx, A_weights, m=1, n=self.n, op='sum')
coalesce(entries) ==
    LET idx == {<<e.row, e.col>> : e \in Range(entries)}
    IN [p \in idx |-> VSumSeq(SeqValues(SelectAt(entries, p)))]

\* A_weights[A_weights > 1] = -A_weights[A_weights > 1] + 2, on one weight
sign_correction(w) == IF VLess(One, w) THEN VAdd(VSub(Zero, w), Two) ELSE w

\* SparseTensor.to_symmetric('max')
to_symmetric(M) ==
    LET idx == DOMAIN M \cup {<<p[2], p[1]>> : p \in DOMAIN M}
        T(p) == <<p[2], p[1]>>
    IN [p \in idx |->
            IF p \in DOMAIN M /\ T(p) \in DOMAIN M THEN VMax(M[p], M[T(p)])
            ELSE IF p \in DOMAIN M THEN M[p] ELSE M[T(p)]]

\* SparseTensor.sum(0): the sum of column j
RECURSIVE VSumSet(_, _)
VSumSet(M, S) ==
    IF S = {} THEN Zero
    ELSE LET p == CHOOSE x \in S : TRUE IN VAdd(M[p], VSumSet(M, S \ {p}))
sum0(M, j) == VSumSet(M, {p \in DOMAIN M : p[2] = j})

----------------------------------------------------------------------------
(* Collaborators outside the reviewed sources, kept symbolic: a result is   *)
(* the record of the arguments that determine it.                           *)

\* ppr.topk_ppr_matrix(adj, alpha, eps, nodes, topk, normalization);
\* alpha is self.surrogate_model.alpha + alpha_plus
topk_ppr_matrix(sp_adj, alpha_plus, nodes) ==
    [fn |-> "topk_ppr_matrix", adj |-> sp_adj, alpha_plus |-> alpha_plus, ppr_idx |-> nodes]

\* calc_ppr_update_sparse_result(ppr_matrix, A_row, diff, node_idx, alpha)
calc_ppr_update_sparse_result(ppr, A_row, diff, node_idx) ==
    [fn |-> "calc_ppr_update_sparse_result", ppr |-> ppr, A_row |-> A_row,
     diff |-> diff, node_idx |-> node_idx]

\* F.log_softmax(model.forward(self.X, None, ppr_scores=perturbed_graph), dim=-1)
log_softmax_forward(perturbed_graph) ==
    [fn |-> "log_softmax", ppr_scores |-> perturbed_graph]

----------------------------------------------------------------------------
(* LocalBatchedPRBCD *)

\* self.idx_attack: the labelled nodes the attack may use
idx_attack == [i \in 1 .. (NumNodes - 1) |-> i]

\* the adjacency row self.adj[node_idx]
adj_row(A, node_idx) ==
    LET cols == {p[2] : p \in {q \in DOMAIN A : q[1] = node_idx}}
    IN [p \in {<<0, c>> : c \in cols} |-> A[<<node_idx, p[2]>>]]

\* self.ppr_matrix[node_idx]
ppr_row(ppr, node_idx) == [fn |-> "row", of |-> ppr, node_idx |-> node_idx]

\* lines 105-113: the 1 x n SparseTensor of the perturbation weights
diff_tensor(css, w, labeled) ==
    LET col(i) == IF labeled THEN idx_attack[css[i] + 1] ELSE css[i]
    IN [p \in {<<0, col(i)>> : i \in DOMAIN css} |->
            LET i == CHOOSE k \in DOMAIN css : col(k) = p[2] IN w[i]]

\* lines 122-131: v_rows += node_idx, then torch.cat of v and A
cat_v_A(node_idx, diff, A) ==
    LET v == coo(diff)
    IN [i \in DOMAIN v |-> [v[i] EXCEPT !.row = @ + node_idx]] \o coo(A)

\* lines 132-141: coalesce, then the sign correction of every weight
corrected_weights(node_idx, diff, A) ==
    LET c == coalesce(cat_v_A(node_idx, diff, A))
    IN [p \in DOMAIN c |-> sign_correction(c[p])]

\* perturbe_graph(node_idx, only_update_adj=True)
perturbe_graph_adj(node_idx, diff, A) == to_symmetric(corrected_weights(node_idx, diff, A))

\* perturbe_graph(node_idx, only_update_adj=False)
perturbe_graph_ppr(node_idx, diff, A, ppr) ==
    calc_ppr_update_sparse_result(ppr, adj_row(A, node_idx), diff, node_idx)

\* self.get_updated_vector_or_graph(node_idx, only_update_adj=True): inherited
get_updated_vector_or_graph(node_idx, diff, A) == perturbe_graph_adj(node_idx, diff, A)

\* line 87: (adj.sum(0) == 0).nonzero().flatten()
disconnected_nodes(M) ==
    LET S == {j \in Node : sum0(M, j) = Zero}
        s == SortIdx({<<j, j>> : j \in S})
    IN [i \in 1 .. Len(s) |-> s[i][1]]

\* torch.full_like(disconnected_nodes, fill): disconnected_nodes is an int64
\* tensor, so the fill value is truncated to an integer
full_like_int64(fill) == <<2 * (fill[1] \div 2), 0>>

\* an int64 column index used as a value
index_as_value(c) == <<2 * c, 0>>

\* lines 88-91: the adjacency rebuilt with one appended entry per disconnected node
repair(M) ==
    LET e == coo(M)
        d == disconnected_nodes(M)
    IN IF Len(d) = 0 THEN e
       ELSE [i \in DOMAIN e |-> [row |-> e[i].row, col |-> e[i].col,
                                  value |-> index_as_value(e[i].col)]]
            \o [i \in DOMAIN d |-> [row |-> d[i], col |-> d[i],
                                    value |-> full_like_int64(PlaceholderWeight)]]

\* line 92: the adjacency handed to topk_ppr_matrix
sp_adj_for_recalc(A, repaired) == A

\* lines 92-98
recalc_ppr(A, repaired, node_idx, n_pert) ==
    topk_ppr_matrix(sp_adj_for_recalc(A, repaired), n_pert, <<node_idx>>)

\* self.adj after a call: the methods build new tensors (torch.cat, coalesce)
\* and write in place only into those
self_adj_aliased(A, written) == written
self_adj_after(A, written) == A

\* self.ppr_matrix after a call: it is only read and indexed
self_ppr_after(ppr, returned) == ppr

NoCall == [op |-> "none", node_idx |-> 0, n_perturbations |-> 0,
           A_weights |-> <<>>, updated_adj |-> <<>>, repaired |-> <<>>, ret |-> <<>>]

\* the graphs of the model: a star around node 0 with k leaves, stored in both
\* directions (make_undirected) or as out-edges only
Star(k, directed) ==
    LET idx == {<<0, j>> : j \in 1 .. k}
               \cup (IF directed THEN {} ELSE {<<j, 0>> : j \in 1 .. k})
    IN [p \in idx |-> One]
Graphs == {Star(k, d) : k \in 0 .. (NumNodes - 1), d \in BOOLEAN}

\* lines 30-33, 58-62: the nodes whose PPR rows are computed
ppr_nodes(labeled) == IF labeled THEN idx_attack ELSE [i \in 1 .. NumNodes |-> i - 1]

\* the search spaces an episode can hold: sorted distinct candidates with
\* relaxed weights in [0, 1]
SearchSpaces(labeled) ==
    LET size == IF labeled THEN Len(idx_attack) ELSE NumNodes
        sets == {S \in SUBSET (0 .. (size - 1)) : Cardinality(S) <= MaxSearch}
    IN {[i \in 1 .. Cardinality(S) |-> SortIdx({<<c, c>> : c \in S})[i][1]] : S \in sets}
RelaxedWeights == {Zero, Half, One}

\* the budgets n_perturbations handed to sample_final_edges
Budgets == {1, 2}

\* the driver variables while no driver runs
DriversIdle ==
    /\ pc = "none" /\ epsilons = <<>> /\ make_undirected = FALSE
    /\ tmp_nodes = <<>> /\ models_and_hyperparams = <<>> /\ surrogate_found = FALSE
    /\ ni = 0 /\ ei = 0 /\ mi = 0 /\ n_perturbations = 0
    /\ results = <<>> /\ effects = {} /\ attempted = {} /\ raised = {} /\ logged = {}
    /\ faults_left = 0
    /\ storage = {} /\ m = 0 /\ attack_runs = <<>> /\ saves = <<>>
    /\ last = <<>> /\ calls_left = 0

InitAttack ==
    /\ program = "attack"
    /\ DriversIdle
    /\ adj \in Graphs
    /\ attack_labeled_nodes_only \in BOOLEAN
    /\ ppr_recalc_at_end \in BOOLEAN
    /\ ppr_matrix = topk_ppr_matrix(adj, 0, ppr_nodes(attack_labeled_nodes_only))
    /\ current_search_space = <<>>
    /\ modified_edge_weight_diff = <<>>
    /\ call = NoCall

\* the search of LocalPRBCD.attack: a new search space and its weights
attack_search ==
    /\ program = "attack"
    /\ call.op = "none"
    /\ \E css \in SearchSpaces(attack_labeled_nodes_only) :
         \E w \in [DOMAIN css -> RelaxedWeights] :
            /\ current_search_space' = css
            /\ modified_edge_weight_diff' = w
    /\ call' = NoCall
    /\ UNCHANGED <<adj, ppr_matrix, attack_labeled_nodes_only, ppr_recalc_at_end,
                   sharedVars, localVars, globalVars>>

CurrentDiff == diff_tensor(current_search_space, modified_edge_weight_diff,
                           attack_labeled_nodes_only)

\* what sample_final_edges(node_idx, n_pert) returns
sample_final_edges_result(node_idx, n_pert) ==
    IF ppr_recalc_at_end
    THEN recalc_ppr(adj, repair(get_updated_vector_or_graph(node_idx, CurrentDiff, adj)),
                    node_idx, n_pert)
    ELSE perturbe_graph_ppr(node_idx, CurrentDiff, adj, ppr_matrix)

\* get_logits(model, node_idx, perturbed_graph): perturbed_graph is None or the
\* graph sample_final_edges resolved for the node
get_logits ==
    /\ program = "attack"
    /\ call.op = "none"
    /\ \E node_idx \in Node, given \in BOOLEAN, n \in Budgets :
         LET graph == IF given THEN sample_final_edges_result(node_idx, n)
                      ELSE ppr_row(ppr_matrix, node_idx)
             ret == log_softmax_forward(graph)
         IN /\ call' = [NoCall EXCEPT !.op = "get_logits", !.node_idx = node_idx,
                                       !.ret = ret]
            /\ ppr_matrix' = self_ppr_after(ppr_matrix, ret)
            /\ adj' = adj
    /\ UNCHANGED <<attack_labeled_nodes_only, ppr_recalc_at_end, current_search_space,
                   modified_edge_weight_diff, sharedVars, localVars, globalVars>>

perturbe_graph ==
    /\ program = "attack"
    /\ call.op = "none"
    /\ \E node_idx \in Node, only_update_adj \in BOOLEAN :
         IF only_update_adj
         THEN LET w == corrected_weights(node_idx, CurrentDiff, adj)
                  ret == perturbe_graph_adj(node_idx, CurrentDiff, adj)
              IN /\ call' = [NoCall EXCEPT !.op = "perturbe_graph_adj",
                                            !.node_idx = node_idx,
                                            !.A_weights = w, !.updated_adj = ret,
                                            !.ret = ret]
                 /\ adj' = self_adj_after(adj, w)
                 /\ ppr_matrix' = ppr_matrix
         ELSE LET ret == perturbe_graph_ppr(node_idx, CurrentDiff, adj, ppr_matrix)
              IN /\ call' = [NoCall EXCEPT !.op = "perturbe_graph",
                                            !.node_idx = node_idx, !.ret = ret]
                 /\ ppr_matrix' = self_ppr_after(ppr_matrix, ret)
                 /\ adj' = adj
    /\ UNCHANGED <<attack_labeled_nodes_only, ppr_recalc_at_end, current_search_space,
                   modified_edge_weight_diff, sharedVars, localVars, globalVars>>

sample_final_edges ==
    /\ program = "attack"
    /\ call.op = "none"
    /\ \E node_idx \in Node, n_pert \in Budgets :
         IF ppr_recalc_at_end
         THEN LET w == corrected_weights(node_idx, CurrentDiff, adj)
                  upd == get_updated_vector_or_graph(node_idx, CurrentDiff, adj)
                  rep == repair(upd)
                  ret == recalc_ppr(adj, rep, node_idx, n_pert)
              IN /\ call' = [op |-> "sample_final_edges", node_idx |-> node_idx,
                             n_perturbations |-> n_pert, A_weights |-> w,
                             updated_adj |-> upd, repaired |-> rep, ret |-> ret]
                 /\ adj' = self_adj_after(adj, w)
                 /\ ppr_matrix' = self_ppr_after(ppr_matrix, ret)
         ELSE LET ret == perturbe_graph_ppr(node_idx, CurrentDiff, adj, ppr_matrix)
              IN /\ call' = [NoCall EXCEPT !.op = "sample_final_edges",
                                            !.node_idx = node_idx,
                                            !.n_perturbations = n_pert,
                                            !.ret = ret]
                 /\ ppr_matrix' = self_ppr_after(ppr_matrix, ret)
                 /\ adj' = adj
    /\ UNCHANGED <<attack_labeled_nodes_only, ppr_recalc_at_end, current_search_space,
                   modified_edge_weight_diff, sharedVars, localVars, globalVars>>

\* the caller takes the returned tensor; the method's locals are gone
method_return ==
    /\ program = "attack"
    /\ call.op # "none"
    /\ call' = NoCall
    /\ UNCHANGED <<adj, ppr_matrix, attack_labeled_nodes_only, ppr_recalc_at_end,
                   current_search_space, modified_edge_weight_diff,
                   sharedVars, localVars, globalVars>>

NextAttack ==
    attack_search \/ get_logits \/ perturbe_graph \/ sample_final_edges \/ method_return

SpecAttack == InitAttack /\ [][NextAttack]_vars

----------------------------------------------------------------------------
(* Properties of LocalBatchedPRBCD *)

Triples(M) == {<<p[1], p[2], M[p]>> : p \in DOMAIN M}
SeqTriples(entries) == {<<e.row, e.col, e.value>> : e \in Range(entries)}

MaterializedCall ==
    \/ call.op = "perturbe_graph_adj"
    \/ call.op = "sample_final_edges" /\ ppr_recalc_at_end
RecalcCall == call.op = "sample_final_edges" /\ ppr_recalc_at_end

\* the column a search-space element stands for
SearchColumn(i) ==
    IF attack_labeled_nodes_only THEN idx_attack[current_search_space[i] + 1]
    ELSE current_search_space[i]

\* the perturbation delta placed at index p for a call on node_idx
DeltaAt(p, node_idx) ==
    IF p[1] = node_idx /\ \E i \in DOMAIN current_search_space : SearchColumn(i) = p[2]
    THEN modified_edge_weight_diff[CHOOSE i \in DOMAIN current_search_space :
                                       SearchColumn(i) = p[2]]
    ELSE Zero
OriginalAt(p) == IF p \in DOMAIN adj THEN adj[p] ELSE Zero
TestedWeights == {Zero, Half, One, <<3, 0>>, Two}
Symmetric(M) == M = to_symmetric(M)

\* C7 (as claimed): in perturbe_graph(node_idx, only_update_adj=True) on an
\* undirected graph the entries of the original adjacency and of the delta in row
\* node_idx that share an index are summed, and a summed weight w in
\* {0, 0.5, 1, 1.5, 2} is output as w when w <= 1 and as 2 - w otherwise: an edge of
\* weight 1 that receives the delta p comes out as 1 - p, an absent edge as p.
C7_CoalesceSignCorrection ==
    (MaterializedCall /\ Symmetric(adj)) =>
        \A p \in DOMAIN call.A_weights :
            LET w == VAdd(OriginalAt(p), DeltaAt(p, call.node_idx))
            IN /\ w \in TestedWeights
               /\ call.updated_adj[p] = IF VLess(One, w) THEN VSub(Two, w) ELSE w

\* C7 before the symmetrization of line 145: the coalesced and sign-corrected
\* weights A_weights are as claimed, for every graph.
C7_WeightsBeforeSymmetrization ==
    MaterializedCall =>
        /\ DOMAIN call.A_weights =
              DOMAIN adj \cup {<<call.node_idx, SearchColumn(i)>> :
                                  i \in DOMAIN current_search_space}
        /\ \A p \in DOMAIN call.A_weights :
              LET w == VAdd(OriginalAt(p), DeltaAt(p, call.node_idx))
              IN /\ w \in TestedWeights
                 /\ call.A_weights[p] = IF VLess(One, w) THEN VSub(Two, w) ELSE w

AddedEdge == \E p \in DOMAIN call.updated_adj :
                 p[1] # p[2] /\ p \notin DOMAIN adj /\ call.updated_adj[p] # Zero

\* C4 (as claimed): with ppr_recalc_at_end, sample_final_edges computes the PPR row
\* of exactly node_idx from the materialized, repaired perturbed adjacency, so
\* whenever the perturbation added an edge the PPR is not computed from the
\* original adjacency.
C4_RecalcFromPerturbedAdjacency ==
    (RecalcCall /\ Symmetric(adj) /\ AddedEdge) =>
        /\ call.ret.ppr_idx = <<call.node_idx>>
        /\ Triples(call.ret.adj) = SeqTriples(call.repaired)
        /\ call.ret.adj # adj

RowSum(M, v) == VSumSet(M, {p \in DOMAIN M : p[1] = v})
SeqRowSum(entries, v) == VSumSeq(SeqValues(SelectSeq(entries, LAMBDA e : e.row = v)))

\* C5 (as claimed): every node that had an outgoing edge and whose row of the
\* perturbed adjacency sums to zero gets a self-edge of weight 1e-9 in the repaired
\* adjacency, its repaired row sums to a positive value, and every other edge keeps
\* its weight.
C5_DisconnectedRepair ==
    RecalcCall =>
        \A v \in Node :
            ((\E p \in DOMAIN adj : p[1] = v) /\ RowSum(call.updated_adj, v) = Zero) =>
                /\ \E i \in DOMAIN call.repaired :
                      call.repaired[i] = [row |-> v, col |-> v, value |-> PlaceholderWeight]
                /\ VLess(Zero, SeqRowSum(call.repaired, v))
                /\ \A p \in DOMAIN call.updated_adj :
                      \E i \in DOMAIN call.repaired :
                          call.repaired[i] =
                              [row |-> p[1], col |-> p[2], value |-> call.updated_adj[p]]

----------------------------------------------------------------------------
(* The experiment drivers: run (local attack transfer),                     *)
(* prepare_global_attack_experiment and run_global_attack                   *)

MaxEps == 2         \* longest `epsilons` list
MaxDegree == 4      \* largest degree of a node of the driver's graph
NumModels == 2      \* most victim models find_models returns
MaxFaults == 2      \* most exceptions raised during one run
MaxCalls == 3       \* most calls of run_global_attack in one run

\* epsilon values, in quarters: -0.25, 0, 0.5, 1
EpsValues == {-1, 0, 2, 4}
EpsilonLists == UNION {[1 .. k -> EpsValues] : k \in 0 .. MaxEps}

\* sorted(epsilons): insertion into an ascending list
RECURSIVE insert_sorted(_, _)
insert_sorted(x, s) ==
    IF s = <<>> THEN <<x>>
    ELSE IF x <= Head(s) THEN <<x>> \o s
    ELSE <<Head(s)>> \o insert_sorted(x, Tail(s))
RECURSIVE sorted(_)
sorted(s) == IF s = <<>> THEN <<>> ELSE insert_sorted(Head(s), sorted(Tail(s)))

\* len(np.unique(epsilons))
len_unique(s) == Cardinality(Range(s))

\* the element test of the third assertion
eps_positive(eps) == eps > 0
eps_allowed(eps) == eps >= 0

\* the three assertions on `epsilons` (run lines 61-64, common lines 27-30)
epsilons_assertions_pass(eps) ==
    /\ sorted(eps) = eps
    /\ len_unique(eps) = Len(eps)
    /\ \A i \in DOMAIN eps : eps_allowed(eps[i])

\* rounding of num / den >= 0, ties away from zero -- not the repository's rounding
round_half_up(num, den) == (2 * num + den) \div (2 * den)

\* torch.round and Python's round: to the nearest integer, ties to the even one
round_half_even(num, den) ==
    LET q == num \div den
        r == num % den
    IN IF 2 * r < den THEN q
       ELSE IF 2 * r > den THEN q + 1
       ELSE IF q % 2 = 0 THEN q ELSE q + 1

\* degree = adj[node].sum()
degree_of(A, node) == RowSum(A, node)

\* int((eps * degree).round().item()): eps in quarters, degree in halves
local_budget(eps, degree) == round_half_even(eps * degree[1], 8)

\* lines 73-76 of common.py: m in halves
logical_edges(A, undirected) ==
    IF undirected THEN Cardinality(DOMAIN A) ELSE 2 * Cardinality(DOMAIN A)

\* int(round(epsilon * m)): epsilon in quarters, m in halves
global_budget(epsilon, m2) == round_half_even(epsilon * m2, 8)

\* the graphs of the drivers: stars around node 0
DriverStar(k, directed) ==
    LET idx == {<<0, j>> : j \in 1 .. k}
               \cup (IF directed THEN {} ELSE {<<j, 0>> : j \in 1 .. k})
    IN [p \in idx |-> One]
DriverGraphs == {DriverStar(k, d) : k \in 0 .. MaxDegree, d \in BOOLEAN}

ModelLabels == [i \in 1 .. NumModels |-> i]
ModelLists == {SubSeq(ModelLabels, 1, k) : k \in 0 .. NumModels}
NodeLists == {<<0>>, <<1>>, <<0, 1>>, <<1, 0>>}

AttackIdle ==
    /\ ppr_matrix = <<>> /\ attack_labeled_nodes_only = FALSE /\ ppr_recalc_at_end = FALSE
    /\ current_search_space = <<>> /\ modified_edge_weight_diff = <<>> /\ call = NoCall

GlobalIdle ==
    /\ storage = {} /\ m = 0 /\ attack_runs = <<>> /\ saves = <<>>
    /\ last = <<>> /\ calls_left = 0

LocalIdle ==
    /\ tmp_nodes = <<>> /\ models_and_hyperparams = <<>> /\ surrogate_found = FALSE
    /\ ni = 0 /\ ei = 0 /\ mi = 0 /\ results = <<>>
    /\ attempted = {} /\ raised = {} /\ logged = {} /\ faults_left = 0

\* the call of run with its configuration
InitLocal(graphs, faults) ==
    /\ program = "local"
    /\ AttackIdle /\ GlobalIdle
    /\ adj \in graphs
    /\ epsilons \in EpsilonLists
    /\ make_undirected = TRUE
    /\ tmp_nodes \in NodeLists
    /\ models_and_hyperparams \in ModelLists
    /\ surrogate_found \in BOOLEAN
    /\ pc = "start"
    /\ ni = 0 /\ ei = 0 /\ mi = 0 /\ n_perturbations = 0
    /\ results = <<>> /\ effects = {}
    /\ attempted = {} /\ raised = {} /\ logged = {}
    /\ faults_left = faults

\* ---- run ----

\* where the loops stand once the body for node ni is over
next_node(i) ==
    IF i < Len(tmp_nodes) /\ Len(epsilons) > 0
    THEN [pc |-> "create_attack", ni |-> i + 1, ei |-> 1]
    ELSE [pc |-> "final_assert", ni |-> i, ei |-> 0]

\* where the loops stand once the body for (ni, ei) is over
next_eps(i, j) ==
    IF j < Len(epsilons) THEN [pc |-> "create_attack", ni |-> i, ei |-> j + 1]
    ELSE next_node(i)

\* `break` where the handlers say `continue`
handler_break(i, j) == next_node(i)
\* `continue` in the handlers of lines 103-106 and 113-117
handler_continue(i, j) == next_eps(i, j)

\* lines 61-65: the assertions, then results = []
run_validate ==
    /\ program = "local" /\ pc = "start"
    /\ IF epsilons_assertions_pass(epsilons)
       THEN pc' = "prepare"
       ELSE pc' = "rejected"
    /\ UNCHANGED <<adj, attackVars, epsilons, make_undirected, n_perturbations, effects,
                   program, localVars, globalVars>>

\* lines 67-92: data, storage, model lookups, the surrogate assertion, tmp_nodes
run_prepare ==
    /\ program = "local" /\ pc = "prepare"
    /\ effects' = effects \cup {"prepare_attack_experiment", "find_models"}
    /\ IF surrogate_found
       THEN LET pos == next_node(0)
            IN pc' = pos.pc /\ ni' = pos.ni /\ ei' = pos.ei
       ELSE pc' = "no_surrogate" /\ UNCHANGED <<ni, ei>>
    /\ UNCHANGED <<adj, attackVars, epsilons, make_undirected, n_perturbations, program,
                   tmp_nodes, models_and_hyperparams, surrogate_found, mi, results,
                   attempted, raised, logged, faults_left, globalVars>>

CurrentNode == tmp_nodes[ni]
CurrentEps == epsilons[ei]

\* lines 99-108: create_attack in its try, then the budget
run_create_attack ==
    /\ program = "local" /\ pc = "create_attack"
    /\ LET unit == <<"create_attack", CurrentNode, CurrentEps>>
       IN \E raises \in BOOLEAN :
            /\ raises => faults_left > 0
            /\ attempted' = attempted \cup {unit}
            /\ effects' = effects \cup {"create_attack"}
            /\ IF raises
               THEN LET pos == handler_continue(ni, ei)
                    IN /\ raised' = raised \cup {unit}
                       /\ logged' = logged \cup {unit}
                       /\ faults_left' = faults_left - 1
                       /\ pc' = pos.pc /\ ni' = pos.ni /\ ei' = pos.ei
                       /\ UNCHANGED n_perturbations
               ELSE /\ n_perturbations' = local_budget(CurrentEps, degree_of(adj, CurrentNode))
                    /\ pc' = "attack"
                    /\ UNCHANGED <<raised, logged, faults_left, ni, ei>>
    /\ UNCHANGED <<adj, attackVars, epsilons, make_undirected, program, tmp_nodes,
                   models_and_hyperparams, surrogate_found, mi, results, globalVars>>

\* where the model loop stands after model k
after_model(k) ==
    IF k < Len(models_and_hyperparams)
    THEN [pc |-> "evaluate", ni |-> ni, ei |-> ei, mi |-> k + 1]
    ELSE LET pos == next_eps(ni, ei) IN [pc |-> pos.pc, ni |-> pos.ni, ei |-> pos.ei, mi |-> 0]

\* lines 111-117: adversary.attack in its try
run_attack ==
    /\ program = "local" /\ pc = "attack"
    /\ LET unit == <<"attack", CurrentNode, CurrentEps, n_perturbations>>
       IN \E raises \in BOOLEAN :
            /\ raises => faults_left > 0
            /\ attempted' = attempted \cup {unit}
            /\ effects' = effects \cup {"attack"}
            /\ IF raises
               THEN LET pos == handler_continue(ni, ei)
                    IN /\ raised' = raised \cup {unit}
                       /\ logged' = logged \cup {unit}
                       /\ faults_left' = faults_left - 1
                       /\ pc' = pos.pc /\ ni' = pos.ni /\ ei' = pos.ei /\ mi' = 0
               ELSE LET pos == after_model(0)
                    IN /\ pc' = pos.pc /\ ni' = pos.ni /\ ei' = pos.ei /\ mi' = pos.mi
                       /\ UNCHANGED <<raised, logged, faults_left>>
    /\ UNCHANGED <<adj, attackVars, epsilons, make_undirected, n_perturbations, program,
                   tmp_nodes, models_and_hyperparams, surrogate_found, results, globalVars>>

\* where the try block of lines 120-146 can raise: before results.append (lines
\* 121-128 and the arguments of the dict of lines 129-139), in the first update
\* (line 141) or in the second one (lines 142-146)
EvalOutcomes == {"ok", "raise_before_append", "raise_in_statistics",
                 "raise_in_initial_statistics"}

\* results after the try block of one model
results_after_evaluate(res, entry, outcome) ==
    CASE outcome = "raise_before_append" -> res
      [] outcome = "raise_in_statistics" -> Append(res, entry)
      [] outcome = "raise_in_initial_statistics" ->
            Append(res, [entry EXCEPT !.statistics = TRUE])
      [] outcome = "ok" ->
            Append(res, [entry EXCEPT !.statistics = TRUE, !.initial_statistics = TRUE])

\* lines 119-151: one victim model
run_evaluate ==
    /\ program = "local" /\ pc = "evaluate"
    /\ LET label == models_and_hyperparams[mi]
           unit == <<"evaluate", CurrentNode, CurrentEps, label>>
           entry == [label |-> label, epsilon |-> CurrentEps,
                     n_perturbations |-> n_perturbations,
                     degree |-> degree_of(adj, CurrentNode)[1] \div 2,
                     node_id |-> CurrentNode,
                     statistics |-> FALSE, initial_statistics |-> FALSE]
           pos == after_model(mi)
       IN \E outcome \in EvalOutcomes :
            /\ outcome # "ok" => faults_left > 0
            /\ attempted' = attempted \cup {unit}
            /\ effects' = effects \cup {"evaluate_local"}
            /\ results' = results_after_evaluate(results, entry, outcome)
            /\ IF outcome = "ok"
               THEN UNCHANGED <<raised, logged, faults_left>>
               ELSE /\ raised' = raised \cup {unit}
                    /\ logged' = logged \cup {unit}
                    /\ faults_left' = faults_left - 1
            /\ pc' = pos.pc /\ ni' = pos.ni /\ ei' = pos.ei /\ mi' = pos.mi
    /\ UNCHANGED <<adj, attackVars, epsilons, make_undirected, n_perturbations, program,
                   tmp_nodes, models_and_hyperparams, surrogate_found, globalVars>>

\* lines 155-159: the final assertion and the return
run_finish ==
    /\ program = "local" /\ pc = "final_assert"
    /\ pc' = IF Len(results) > 0 THEN "returned" ELSE "assert_failed"
    /\ UNCHANGED <<adj, attackVars, epsilons, make_undirected, n_perturbations, effects,
                   program, localVars, globalVars>>

NextLocal ==
    run_validate \/ run_prepare \/ run_create_attack \/ run_attack \/ run_evaluate
    \/ run_finish

\* the faults of run on one graph
SpecDriver == InitLocal({DriverStar(2, FALSE)}, MaxFaults) /\ [][NextLocal]_vars

----------------------------------------------------------------------------
(* The global attack *)

\* Storage (rgnn_at_scale.helper.io), from its interface: an artifact saved under
\* a key is found under that key afterwards.  The key is pert_params plus epsilon;
\* pert_params is the same for every call of one run.
ArtifactTypes == {"pert_adj", "pert_attr"}
load_artifact(store, type, epsilon) == <<type, epsilon>> \in store
save_artifact(store, type, epsilon) == store \cup {<<type, epsilon>>}

\* a cache test that asks for a missing attribute matrix
cached_adj_only(pert_adj, pert_attr) == pert_adj /\ ~pert_attr
\* line 88: pert_adj is not None and pert_attr is not None
cached(pert_adj, pert_attr) == pert_adj /\ pert_attr

StorageKeys == ArtifactTypes \X (EpsValues \ {-1})

InitGlobal ==
    /\ program = "global"
    /\ AttackIdle /\ LocalIdle
    /\ adj \in DriverGraphs
    /\ epsilons \in EpsilonLists
    /\ make_undirected \in BOOLEAN
    /\ pc = "start"
    /\ n_perturbations = 0
    /\ effects = {}
    /\ storage \in SUBSET StorageKeys
    /\ m = 0
    /\ attack_runs = [e \in EpsValues |-> 0]
    /\ saves = [k \in StorageKeys |-> 0]
    /\ last = <<>>
    /\ calls_left = MaxCalls

\* common.py lines 18-78
prepare_global_attack_experiment ==
    /\ program = "global" /\ pc = "start"
    /\ IF epsilons_assertions_pass(epsilons)
       THEN /\ pc' = "prepared"
            /\ effects' = effects \cup {"prep_graph", "Storage"}
            /\ m' = logical_edges(adj, make_undirected)
       ELSE /\ pc' = "rejected"
            /\ UNCHANGED <<effects, m>>
    /\ UNCHANGED <<adj, attackVars, epsilons, make_undirected, n_perturbations, program,
                   localVars, storage, attack_runs, saves, last, calls_left>>

\* common.py lines 81-99, called with an epsilon of the list
run_global_attack ==
    /\ program = "global" /\ pc = "prepared" /\ calls_left > 0
    /\ \E i \in DOMAIN epsilons :
         LET epsilon == epsilons[i]
             pert_adj == load_artifact(storage, "pert_adj", epsilon)
             pert_attr == load_artifact(storage, "pert_attr", epsilon)
             hit == cached(pert_adj, pert_attr)
         IN /\ n_perturbations' = global_budget(epsilon, m)
            /\ effects' = effects \cup {"load_artifact"} \cup (IF hit THEN {} ELSE {"attack"})
            /\ last' = [epsilon |-> epsilon, pert_adj |-> pert_adj, pert_attr |-> pert_attr,
                        attacked |-> ~hit, saved |-> IF hit THEN {} ELSE ArtifactTypes]
            /\ IF hit
               THEN UNCHANGED <<storage, attack_runs, saves>>
               ELSE /\ attack_runs' = [attack_runs EXCEPT ![epsilon] = @ + 1]
                    /\ storage' = save_artifact(save_artifact(storage, "pert_adj", epsilon),
                                                "pert_attr", epsilon)
                    /\ saves' = [saves EXCEPT ![<<"pert_adj", epsilon>>] = @ + 1,
                                              ![<<"pert_attr", epsilon>>] = @ + 1]
    /\ calls_left' = calls_left - 1
    /\ UNCHANGED <<adj, attackVars, epsilons, make_undirected, program, pc, localVars, m>>

NextGlobal == prepare_global_attack_experiment \/ run_global_attack

\* both experiment programs over every configuration; run without faults
Init == InitLocal(DriverGraphs, 0) \/ InitGlobal
Next == NextLocal \/ NextGlobal
Spec == Init /\ [][Next]_vars

----------------------------------------------------------------------------
(* Properties of the drivers *)

StrictlyIncreasing(eps) == \A i, j \in DOMAIN eps : i < j => eps[i] < eps[j]
ValidEpsilons(eps) == StrictlyIncreasing(eps) /\ \A i \in DOMAIN eps : eps[i] >= 0

Abs(x) == IF x < 0 THEN -x ELSE x
\* n is num / den rounded to the nearest integer, a tie going to the even one
NearestTiesEven(n, num, den) ==
    /\ 2 * Abs(n * den - num) <= den
    /\ 2 * Abs(n * den - num) = den => n % 2 = 0
OutDegree(node) == Cardinality({p \in DOMAIN adj : p[1] = node})
EdgeCountTimesTwo == IF make_undirected THEN Cardinality(DOMAIN adj)
                     ELSE 2 * Cardinality(DOMAIN adj)

\* C6: the budget handed to every local attack is epsilon * degree(node) rounded to
\* the nearest integer, the budget of the global attack is epsilon * m rounded to
\* the nearest integer (m half the stored entries when make_undirected), both with
\* ties to the even integer; degree 4 and epsilon 0.5 give 2.
C6_BudgetRounding ==
    /\ \A u \in attempted :
          u[1] = "attack" =>
             /\ NearestTiesEven(u[4], u[3] * OutDegree(u[2]), 4)
             /\ (u[3] = 2 /\ OutDegree(u[2]) = 4) => u[4] = 2
    /\ (program = "global" /\ last # <<>>) =>
          NearestTiesEven(n_perturbations, last.epsilon * EdgeCountTimesTwo, 8)

\* C6 witness: node 0 of degree 4 was attacked with epsilon 0.5 and budget 2, after
\* node 1 of degree 1 got the budget 0 for the tie 0.5.
C6_Witness ==
    /\ OutDegree(0) = 4
    /\ <<"attack", 0, 2, 2>> \in attempted
    /\ <<"attack", 1, 2, 0>> \in attempted

\* C9: run_global_attack executes the attack only when one of the two artifacts is
\* missing under the key; when both are found it neither attacks nor saves; after an
\* attack both artifacts are stored; so per key the attack runs at most once and each
\* artifact is saved at most once.
C9_GlobalAttackMemoized ==
    program = "global" =>
        /\ \A e \in EpsValues : attack_runs[e] <= 1
        /\ \A k \in StorageKeys : saves[k] <= 1
        /\ last # <<>> =>
              /\ last.attacked => ~(last.pert_adj /\ last.pert_attr)
              /\ (last.pert_adj /\ last.pert_attr) => (~last.attacked /\ last.saved = {})
              /\ last.attacked =>
                    /\ <<"pert_adj", last.epsilon>> \in storage
                    /\ <<"pert_attr", last.epsilon>> \in storage

\* C9 witness: a call attacked and saved, and a later call with the same epsilon
\* found both artifacts and did not attack.
C9_Witness ==
    /\ program = "global" /\ last # <<>>
    /\ attack_runs[last.epsilon] = 1
    /\ saves[<<"pert_adj", last.epsilon>>] = 1 /\ saves[<<"pert_attr", last.epsilon>>] = 1
    /\ last.pert_adj /\ last.pert_attr /\ ~last.attacked

LoopsOver == pc \in {"final_assert", "returned", "assert_failed"}
Succeeded == {u \in attempted \ raised : u[1] = "evaluate"}

\* C3 (as claimed): a run that got through its loops returns exactly when at least
\* one (node, epsilon, model) unit was evaluated successfully, and fails on the
\* final assertion when none was.
C3_FailsOnlyWithoutSuccess ==
    /\ pc = "returned" => Succeeded # {}
    /\ pc = "assert_failed" => Succeeded = {}

\* C10 (as claimed): every entry of results belongs to a unit whose evaluation did
\* not raise and carries its statistics and its initial_ statistics.
C10_ResultsOnlyFromCompletedUnits ==
    \A i \in DOMAIN results :
        /\ <<"evaluate", results[i].node_id, results[i].epsilon, results[i].label>>
              \notin raised
        /\ results[i].statistics
        /\ results[i].initial_statistics

====
